---- MODULE Spec2Model ----
(***************************************************************************)
(* Model of src/Prepare_Bible.py: a one-shot batch transform that reads a  *)
(* JSON document (a list of verse records, or a book -> chapter -> verse   *)
(* -> text mapping), flattens it to a table, coerces chapter and verse to  *)
(* nullable integers, sorts, numbers the rows and writes a CSV file.       *)
(*                                                                         *)
(* Text is a sequence of one-character strings, so that parsing, printing  *)
(* and lexical comparison are computed and not assumed.  A table (pandas   *)
(* DataFrame) is a record [columns, rows]: column labels in order (labels  *)
(* may repeat, as pandas allows) and rows of cells aligned with them.      *)
(***************************************************************************)
EXTENDS Integers, Sequences, FiniteSets, TLC

(***************************************************************************)
(* Bounds of the model.                                                    *)
(***************************************************************************)
\* longest list-shaped input, in records
MaxRecs == 3
\* most chapters in one book of a nested-shaped input
MaxChapters == 2
\* most verses in one chapter of a nested-shaped input
MaxVerses == 2

(***************************************************************************)
(* Characters and text.                                                    *)
(***************************************************************************)
\* the characters the inputs use, in code-point order
Alphabet ==
    << "-", ".", "0", "1", "2", "3", "4", "5", "6", "7", "8", "9",
       "A", "B", "a", "b", "e", "m", "n", "o", "r", "t", "u", "x", "y", "z" >>

Ord(c) == CHOOSE i \in 1..Len(Alphabet) : Alphabet[i] = c

DigitChars == {"0", "1", "2", "3", "4", "5", "6", "7", "8", "9"}

DigitVal(c) == Ord(c) - Ord("0")

DigitChar(d) == Alphabet[Ord("0") + d]

\* Python's str < str: by code point, a proper prefix first
RECURSIVE StrLess(_, _)
StrLess(a, b) ==
    IF b = << >> THEN FALSE
    ELSE IF a = << >> THEN TRUE
    ELSE IF a[1] = b[1] THEN StrLess(Tail(a), Tail(b))
    ELSE Ord(a[1]) < Ord(b[1])

AllDigits(s) == s # << >> /\ \A i \in 1..Len(s) : s[i] \in DigitChars

\* value of a non-empty string of decimal digits
RECURSIVE DigitsValue(_)
DigitsValue(s) ==
    IF s = << >> THEN 0
    ELSE 10 * DigitsValue(SubSeq(s, 1, Len(s) - 1)) + DigitVal(s[Len(s)])

\* decimal digits of a natural number
RECURSIVE NatDigits(_)
NatDigits(n) ==
    IF n < 10 THEN << DigitChar(n) >>
    ELSE Append(NatDigits(n \div 10), DigitChar(n % 10))

\* str(n) of a Python int
IntToStr(n) == IF n < 0 THEN << "-" >> \o NatDigits(-n) ELSE NatDigits(n)

(***************************************************************************)
(* Cells: the scalar values a table (or a JSON record) holds.              *)
(*   str    a string                 s = its characters                    *)
(*   int    an integer               n = its value                         *)
(*   float  a float n + 0.s          (s = fraction digits)                 *)
(*   nan    pandas' missing value (NaN in a float/object column, <NA> in   *)
(*          an Int64 column)                                               *)
(***************************************************************************)
Str(s) == [t |-> "str", s |-> s, n |-> 0]
Num(n) == [t |-> "int", s |-> << >>, n |-> n]
Flt(n, frac) == [t |-> "float", s |-> frac, n |-> n]
NaN == [t |-> "nan", s |-> << >>, n |-> 0]

Position(s, c) ==
    IF \E i \in 1..Len(s) : s[i] = c
    THEN CHOOSE i \in 1..Len(s) : s[i] = c /\ \A j \in 1..(i - 1) : s[j] # c
    ELSE 0

\* a float whose fraction digits are all zero holds an integer
IsIntegral(c) == \A i \in 1..Len(c.s) : c.s[i] = "0"

\* an unsigned decimal literal: digits, or digits "." digits
ParseUnsigned(s) ==
    LET dot == Position(s, ".") IN
    IF AllDigits(s) THEN Num(DigitsValue(s))
    ELSE IF dot > 1 /\ dot < Len(s)
            /\ AllDigits(SubSeq(s, 1, dot - 1))
            /\ AllDigits(SubSeq(s, dot + 1, Len(s)))
         THEN Flt(DigitsValue(SubSeq(s, 1, dot - 1)), SubSeq(s, dot + 1, Len(s)))
         ELSE NaN

Negate(c) == IF c.t = "nan" THEN c ELSE [c EXCEPT !.n = -c.n]

\* pd.to_numeric(..., errors="coerce") on one value: a number stays, a string
\* that reads as a decimal number becomes that number, anything else NaN
to_numeric(c) ==
    IF c.t = "str"
    THEN IF c.s # << >> /\ c.s[1] = "-"
         THEN Negate(ParseUnsigned(Tail(c.s)))
         ELSE ParseUnsigned(c.s)
    ELSE c

\* int that reads an unparsable label as 0 instead of raising
int_lenient(s) ==
    IF AllDigits(s) THEN [ok |-> TRUE, n |-> DigitsValue(s)]
    ELSE IF s # << >> /\ s[1] = "-" /\ AllDigits(Tail(s))
         THEN [ok |-> TRUE, n |-> -DigitsValue(Tail(s))]
         ELSE [ok |-> TRUE, n |-> 0]

\* Python's int(label) on a string: [ok, n]; ok = FALSE stands for ValueError
int(s) ==
    IF AllDigits(s) THEN [ok |-> TRUE, n |-> DigitsValue(s)]
    ELSE IF s # << >> /\ s[1] = "-" /\ AllDigits(Tail(s))
         THEN [ok |-> TRUE, n |-> -DigitsValue(Tail(s))]
         ELSE [ok |-> FALSE, n |-> 0]

\* Python's str(value) of a JSON scalar
str(c) ==
    CASE c.t = "str" -> c.s
      [] c.t = "int" -> IntToStr(c.n)
      [] c.t = "float" -> IntToStr(c.n) \o << "." >> \o c.s
      [] OTHER -> << "n", "a", "n" >>

(***************************************************************************)
(* Tables.                                                                 *)
(***************************************************************************)
EmptyFrame == [columns |-> << >>, rows |-> << >>]

\* the keys of one JSON object, in order
Keys(rec) == [i \in 1..Len(rec) |-> rec[i].k]

HasKey(rec, key) == \E i \in 1..Len(rec) : rec[i].k = key

Lookup(rec, key) == rec[CHOOSE i \in 1..Len(rec) : rec[i].k = key].v

Contains(seq, x) == \E i \in 1..Len(seq) : seq[i] = x

\* the labels of seq not yet in cols, appended in order
RECURSIVE AppendNew(_, _)
AppendNew(cols, seq) ==
    IF seq = << >> THEN cols
    ELSE AppendNew(IF Contains(cols, seq[1]) THEN cols ELSE Append(cols, seq[1]),
                   Tail(seq))

\* union of the records' keys, in order of first appearance
RECURSIVE ColumnsOf(_, _)
ColumnsOf(cols, data) ==
    IF data = << >> THEN cols
    ELSE ColumnsOf(AppendNew(cols, Keys(data[1])), Tail(data))

\* pd.DataFrame(list of dicts): one row per record, one column per key seen,
\* NaN where a record lacks the key
DataFrame(data) ==
    LET cols == ColumnsOf(<< >>, data) IN
    [columns |-> cols,
     rows |-> [i \in 1..Len(data) |->
                 [j \in 1..Len(cols) |->
                    IF HasKey(data[i], cols[j]) THEN Lookup(data[i], cols[j])
                    ELSE NaN]]]

\* rename_map without the bookName and content entries
rename_map_short ==
    ("Book" :> "book") @@ ("book_name" :> "book") @@
    ("Chapter" :> "chapter") @@ ("chapterNumber" :> "chapter") @@
    ("Verse" :> "verse") @@ ("verseNumber" :> "verse") @@
    ("Text" :> "text") @@ ("verseText" :> "text")

\* the static field-alias table
rename_map ==
    ("Book" :> "book") @@ ("book_name" :> "book") @@ ("bookName" :> "book") @@
    ("Chapter" :> "chapter") @@ ("chapterNumber" :> "chapter") @@
    ("Verse" :> "verse") @@ ("verseNumber" :> "verse") @@
    ("Text" :> "text") @@ ("verseText" :> "text") @@ ("content" :> "text")

\* df.rename(columns=...): every label the table maps is replaced, whatever
\* labels the frame already has
rename(df, map) ==
    [df EXCEPT !.columns =
        [j \in 1..Len(df.columns) |->
            IF df.columns[j] \in DOMAIN map THEN map[df.columns[j]]
            ELSE df.columns[j]]]

\* required without verse
required_without_verse == {"book", "chapter", "text"}

required == {"book", "chapter", "verse", "text"}

Range(seq) == {seq[i] : i \in 1..Len(seq)}

\* positions of the columns labelled name, in frame order
RECURSIVE PositionsOf(_, _, _)
PositionsOf(cols, name, from) ==
    IF from > Len(cols) THEN << >>
    ELSE (IF cols[from] = name THEN << from >> ELSE << >>)
            \o PositionsOf(cols, name, from + 1)

RECURSIVE SelectPositions(_, _)
SelectPositions(cols, names) ==
    IF names = << >> THEN << >>
    ELSE PositionsOf(cols, names[1], 1) \o SelectPositions(cols, Tail(names))

\* Select that keeps every column of the frame
SelectKeepingAll(df, names) == df

\* df[[names]]: for each name in turn, every column so labelled
Select(df, names) ==
    LET pos == SelectPositions(df.columns, names) IN
    [columns |-> [j \in 1..Len(pos) |-> df.columns[pos[j]]],
     rows |-> [i \in 1..Len(df.rows) |->
                 [j \in 1..Len(pos) |-> df.rows[i][pos[j]]]]]

NoError == [kind |-> "none", missing |-> {}, seen |-> << >>]

Error(kind) == [kind |-> kind, missing |-> {}, seen |-> << >>]

\* flatten_from_list: [ok, df, err]
flatten_from_list(data) ==
    LET df == rename(DataFrame(data), rename_map)
        missing == required \ Range(df.columns)
    IN  IF missing # {}
        THEN [ok |-> FALSE, df |-> EmptyFrame,
              err |-> [kind |-> "MissingRequiredFields", missing |-> missing,
                       seen |-> df.columns]]
        ELSE [ok |-> TRUE,
              df |-> Select(df, << "book", "chapter", "verse", "text" >>),
              err |-> NoError]

(***************************************************************************)
(* The nested flattener.  A JSON object is the sequence of its entries     *)
(* [k, v] in document order; the value of a book or chapter entry is       *)
(* [isMap, entries], with isMap = FALSE for anything that is not an object.*)
(***************************************************************************)
NotAMap == [isMap |-> FALSE, entries |-> << >>]

Map(entries) == [isMap |-> TRUE, entries |-> entries]

RECURSIVE Flatten(_)
Flatten(seqs) == IF seqs = << >> THEN << >> ELSE seqs[1] \o Flatten(Tail(seqs))

\* the (book, chapter-label, verse-label, text) quadruples the three loops
\* reach, in order: entries under a non-mapping book or chapter are skipped
\* VersesOfChapter that stops one verse short
VersesOfChapterButLast(book, chapter, verses) ==
    [i \in 1..(Len(verses) - 1) |->
        [book |-> book, chapter |-> chapter, verse |-> verses[i].k,
         text |-> verses[i].v]]

VersesOfChapter(book, chapter, verses) ==
    [i \in 1..Len(verses) |->
        [book |-> book, chapter |-> chapter, verse |-> verses[i].k,
         text |-> verses[i].v]]

VersesOfBook(book, chapters) ==
    Flatten([i \in 1..Len(chapters) |->
                IF chapters[i].v.isMap
                THEN VersesOfChapter(book, chapters[i].k, chapters[i].v.entries)
                ELSE << >>])

Quadruples(data) ==
    Flatten([i \in 1..Len(data) |->
                IF data[i].v.isMap THEN VersesOfBook(data[i].k, data[i].v.entries)
                ELSE << >>])

NestedColumns == << "book", "chapter", "verse", "text" >>

\* flatten_from_nested: [ok, df, err].  int() raises at the first quadruple
\* whose chapter or verse label does not parse; with none reached the walk
\* ends in "no records found"
flatten_from_nested(data) ==
    LET quads == Quadruples(data)
        bad == {i \in 1..Len(quads) :
                   ~int(quads[i].chapter).ok \/ ~int(quads[i].verse).ok}
    IN  IF bad # {}
        THEN [ok |-> FALSE, df |-> EmptyFrame, err |-> Error("CoercionFailure")]
        ELSE IF quads = << >>
        THEN [ok |-> FALSE, df |-> EmptyFrame, err |-> Error("EmptyFlattenResult")]
        ELSE [ok |-> TRUE,
              df |-> [columns |-> NestedColumns,
                      rows |-> [i \in 1..Len(quads) |->
                                  << Str(quads[i].book),
                                     Num(int(quads[i].chapter).n),
                                     Num(int(quads[i].verse).n),
                                     Str(str(quads[i].text)) >>]],
              err |-> NoError]

(***************************************************************************)
(* The normalizer/sorter of main.                                          *)
(***************************************************************************)
Count(cols, name) == Len(PositionsOf(cols, name, 1))

ColumnCells(df, j) == [i \in 1..Len(df.rows) |-> df.rows[i][j]]

\* .astype("Int64") of one value: an integral float becomes that integer
astype_Int64(c) == IF c.t = "float" THEN Num(c.n) ELSE c

\* df[col] = pd.to_numeric(df[col], errors="coerce").astype("Int64"):
\* [ok, df].  A repeated label makes df[col] a frame, which to_numeric
\* rejects; a non-integral float cannot be cast to Int64 (TypeError both).
CoerceColumn(df, col) ==
    LET j == PositionsOf(df.columns, col, 1)[1]
        numeric == [i \in 1..Len(df.rows) |-> to_numeric(df.rows[i][j])]
    IN  IF Count(df.columns, col) # 1 THEN [ok |-> FALSE, df |-> df]
        ELSE IF \E i \in 1..Len(numeric) :
                    numeric[i].t = "float" /\ ~IsIntegral(numeric[i])
        THEN [ok |-> FALSE, df |-> df]
        ELSE [ok |-> TRUE,
              df |-> [df EXCEPT !.rows =
                        [i \in 1..Len(df.rows) |->
                            [df.rows[i] EXCEPT ![j] = astype_Int64(numeric[i])]]]]

\* the loop over ("chapter", "verse")
coerce(df) ==
    LET c == CoerceColumn(df, "chapter") IN
    IF ~c.ok THEN c ELSE CoerceColumn(c.df, "verse")

\* CellLess with integers compared as their decimal text ("10" before "2")
CellLessLexical(a, b) ==
    IF a.t = "nan" THEN FALSE
    ELSE IF b.t = "nan" THEN TRUE
    ELSE StrLess(str(a), str(b))

\* order of two values of one sort key: text by code point, integers by
\* value, a missing value after every present one (na_position="last")
CellLess(a, b) ==
    IF a.t = "nan" THEN FALSE
    ELSE IF b.t = "nan" THEN TRUE
    ELSE IF a.t = "str" THEN StrLess(a.s, b.s)
    ELSE a.n < b.n

\* lexicographic order of two rows on the key columns at positions keys
RECURSIVE RowLess(_, _, _)
RowLess(r1, r2, keys) ==
    IF keys = << >> THEN FALSE
    ELSE IF CellLess(r1[keys[1]], r2[keys[1]]) THEN TRUE
    ELSE IF CellLess(r2[keys[1]], r1[keys[1]]) THEN FALSE
    ELSE RowLess(r1, r2, Tail(keys))

\* r placed before the first row greater than it
RECURSIVE InsertRow(_, _, _)
InsertRow(sorted, r, keys) ==
    IF sorted = << >> THEN << r >>
    ELSE IF RowLess(r, sorted[1], keys) THEN << r >> \o sorted
    ELSE << sorted[1] >> \o InsertRow(Tail(sorted), r, keys)

\* stable sort of the rows on the key columns
RECURSIVE SortRows(_, _)
SortRows(rows, keys) ==
    IF rows = << >> THEN << >>
    ELSE InsertRow(SortRows(SubSeq(rows, 1, Len(rows) - 1), keys),
                   rows[Len(rows)], keys)

SortKeys == << "book", "chapter", "verse" >>

\* df.sort_values(["book", "chapter", "verse"]).reset_index(drop=True):
\* [ok, df]; a sort label that names two columns is a ValueError
sort_values(df) ==
    IF \E k \in 1..Len(SortKeys) : Count(df.columns, SortKeys[k]) # 1
    THEN [ok |-> FALSE, df |-> df]
    ELSE [ok |-> TRUE,
          df |-> [df EXCEPT !.rows =
                    SortRows(df.rows,
                             [k \in 1..Len(SortKeys) |->
                                 PositionsOf(df.columns, SortKeys[k], 1)[1]])]]

\* insert_id numbering from 1
insert_id_from_one(df) ==
    [columns |-> << "id" >> \o df.columns,
     rows |-> [i \in 1..Len(df.rows) |-> << Num(i) >> \o df.rows[i]]]

\* df.insert(0, "id", range(len(df)))
insert_id(df) ==
    [columns |-> << "id" >> \o df.columns,
     rows |-> [i \in 1..Len(df.rows) |-> << Num(i - 1) >> \o df.rows[i]]]

\* df.to_csv(OUTPUT_CSV, index=False): a header row of the labels, then
\* one row of fields per table row, a missing value as the empty field
to_csv(df) ==
    [written |-> TRUE,
     header |-> df.columns,
     lines |-> [i \in 1..Len(df.rows) |->
                  [j \in 1..Len(df.columns) |->
                     IF df.rows[i][j].t = "nan" THEN << >>
                     ELSE str(df.rows[i][j])]]]

NoFile == [written |-> FALSE, header |-> << >>, lines |-> << >>]

(***************************************************************************)
(* The inputs the model runs main on.                                      *)
(***************************************************************************)
Field(k, v) == [k |-> k, v |-> v]

\* one spelling per field: the canonical names and three sets of aliases
Canonical == [book |-> "book", chapter |-> "chapter", verse |-> "verse",
              text |-> "text"]

SpellMaps ==
    { Canonical,
      [book |-> "Book", chapter |-> "Chapter", verse |-> "Verse", text |-> "Text"],
      [book |-> "book_name", chapter |-> "chapterNumber",
       verse |-> "verseNumber", text |-> "verseText"],
      [book |-> "bookName", chapter |-> "chapter", verse |-> "verse",
       text |-> "content"] }

BookA == Str(<< "A" >>)
BookB == Str(<< "B" >>)
NotANumber == Str(<< "n", "o", "t", "-", "a", "-", "n", "u", "m", "b", "e", "r" >>)

\* the text of the i-th record: "t1", "t2", ...
RowText(i) == Str(<< "t" >> \o NatDigits(i))

\* records that differ in their values
ValueKinds ==
    { "A-1-1", "A-1-5", "B-2-1", "A-'10'-1", "A-'2'-'x'", "A-'not-a-number'-1",
      "A-'1.5'-1" }

\* records that differ in the fields they have and how they spell them
ShapeKinds ==
    { "A-1-1", "B-2-1", "no verse", "extra fields", "canonical names",
      "Text and text" }

\* the records tried under a spelling: every value under the canonical
\* names, every shape under each spelling
RecordKinds(sp) ==
    IF sp = Canonical THEN (ValueKinds \cup ShapeKinds) \ {"canonical names"}
    ELSE ShapeKinds

\* the i-th record of a list-shaped input, its fields spelled as sp says
Record(kind, sp, i) ==
    LET Full(names, b, c, v) ==
            << Field(names.book, b), Field(names.chapter, c),
               Field(names.verse, v), Field(names.text, RowText(i)) >>
    IN  CASE kind = "A-1-1" -> Full(sp, BookA, Num(1), Num(1))
          [] kind = "A-1-5" -> Full(sp, BookA, Num(1), Num(5))
          [] kind = "B-2-1" -> Full(sp, BookB, Num(2), Num(1))
          [] kind = "A-'10'-1" -> Full(sp, BookA, Str(<< "1", "0" >>), Num(1))
          [] kind = "A-'2'-'x'" -> Full(sp, BookA, Str(<< "2" >>), Str(<< "x" >>))
          [] kind = "A-'not-a-number'-1" -> Full(sp, BookA, NotANumber, Num(1))
          [] kind = "A-'1.5'-1" ->
                Full(sp, BookA, Str(<< "1", ".", "5" >>), Num(1))
          [] kind = "no verse" ->
                << Field(sp.book, BookA), Field(sp.chapter, Num(1)),
                   Field(sp.text, RowText(i)) >>
          [] kind = "extra fields" ->
                << Field("id", Num(7)) >> \o Full(sp, BookB, Num(2), Num(1))
                    \o << Field("note", Str(<< "n" >>)) >>
          [] kind = "canonical names" -> Full(Canonical, BookA, Num(1), Num(5))
          [] kind = "Text and text" ->
                << Field(sp.book, BookA), Field(sp.chapter, Num(1)),
                   Field(sp.verse, Num(1)), Field("Text", RowText(i)),
                   Field("text", Str(<< "u" >>)) >>

ListRoot(items) == [kind |-> "list", items |-> items]
DictRoot(entries) == [kind |-> "dict", items |-> entries]
ScalarRoot == [kind |-> "scalar", items |-> << >>]

\* the list-shaped input whose i-th record is of kind kinds[i], spelled sp
ListInput(sp, kinds) ==
    ListRoot([i \in 1..Len(kinds) |-> Record(kinds[i], sp, i)])

\* the sequences of at most n distinct elements of S
DistinctSeqs(S, n) ==
    UNION { {q \in [1..m -> S] : \A i, j \in 1..m : i # j => q[i] # q[j]} :
            m \in 0..n }

VerseLabels == { << "1" >>, << "2" >>, << "x" >> }

ChapterLabels == { << "1" >>, << "x" >> }

\* the text under a verse label: "a", "b", and the number 7 under "x"
VerseText(label) ==
    CASE label = << "1" >> -> Str(<< "a" >>)
      [] label = << "2" >> -> Str(<< "b" >>)
      [] OTHER -> Num(7)

VerseMaps ==
    { Map([i \in 1..Len(q) |-> Field(q[i], VerseText(q[i]))]) :
        q \in DistinctSeqs(VerseLabels, MaxVerses) }

ChapterValues == VerseMaps \cup {NotAMap}

BookValues ==
    { Map([i \in 1..Len(q) |-> Field(q[i], val[q[i]])]) :
        q \in DistinctSeqs(ChapterLabels, MaxChapters),
        val \in [ChapterLabels -> ChapterValues] }
    \cup {NotAMap}

\* what the root holds under "B" when it has that key: a one-verse book, or
\* a value that is no mapping (a metadata key)
SiblingValues ==
    { NotAMap,
      Map(<< Field(<< "1" >>, Map(<< Field(<< "1" >>, Str(<< "b" >>)) >>)) >>) }

BookNames == { << "A" >>, << "B" >> }

\* the nested-shaped input with the books q, in that order: a under "A" and
\* b under "B"
NestedInput(q, a, b) ==
    DictRoot([i \in 1..Len(q) |-> Field(q[i], IF q[i] = << "A" >> THEN a ELSE b)])

\* the input file: absent, not JSON, or a JSON document
NoInputFile == [exists |-> FALSE, json |-> FALSE, root |-> ScalarRoot]

NotJsonFile == [exists |-> TRUE, json |-> FALSE, root |-> ScalarRoot]

JsonFile(root) == [exists |-> TRUE, json |-> TRUE, root |-> root]

(***************************************************************************)
(* main, one action per stage.                                             *)
(***************************************************************************)
VARIABLES
    file,     \* INPUT_JSON on disk
    pc,       \* where main is
    data,     \* the parsed document
    df,       \* the table
    err,      \* the exception that ended the run, if any
    output,   \* OUTPUT_CSV on disk
    stages    \* the stages completed so far, in order

vars == << file, pc, data, df, err, output, stages >>

Init ==
    /\ \/ file \in {NoInputFile, NotJsonFile, JsonFile(ScalarRoot)}
       \/ \E sp \in SpellMaps, n \in 0..MaxRecs :
             \E kinds \in [1..n -> RecordKinds(sp)] :
                file = JsonFile(ListInput(sp, kinds))
       \/ \E q \in DistinctSeqs(BookNames, Cardinality(BookNames)),
             a \in BookValues, b \in SiblingValues :
                file = JsonFile(NestedInput(q, a, b))
    /\ pc = "start"
    /\ data = ScalarRoot
    /\ df = EmptyFrame
    /\ err = NoError
    /\ output = NoFile
    /\ stages = << >>

Raise(e) ==
    /\ pc' = "failed"
    /\ err' = e

Done(stage, next) ==
    /\ pc' = next
    /\ stages' = Append(stages, stage)
    /\ err' = err

\* if not INPUT_JSON.exists(): raise FileNotFoundError
CheckInput ==
    /\ pc = "start"
    /\ IF file.exists THEN Done("exists", "open")
       ELSE Raise(Error("InputNotFound")) /\ UNCHANGED stages
    /\ UNCHANGED << file, data, df, output >>

\* data = json.load(f)
LoadJson ==
    /\ pc = "open"
    /\ IF file.json
       THEN Done("parse", "parsed") /\ data' = file.root
       ELSE Raise(Error("JSONDecodeError")) /\ UNCHANGED << stages, data >>
    /\ UNCHANGED << file, df, output >>

Flattened(stage, r) ==
    /\ IF r.ok THEN Done(stage, "flattened") ELSE Raise(r.err) /\ UNCHANGED stages
    /\ df' = r.df

\* isinstance(data, list): df = flatten_from_list(data)
FlattenList ==
    /\ pc = "parsed"
    /\ data.kind = "list"
    /\ Flattened("flatten_from_list", flatten_from_list(data.items))
    /\ UNCHANGED << file, data, output >>

\* isinstance(data, dict): df = flatten_from_nested(data)
FlattenNested ==
    /\ pc = "parsed"
    /\ data.kind = "dict"
    /\ Flattened("flatten_from_nested", flatten_from_nested(data.items))
    /\ UNCHANGED << file, data, output >>

\* else: raise TypeError("Unsupported JSON top-level type")
Unsupported ==
    /\ pc = "parsed"
    /\ data.kind \notin {"list", "dict"}
    /\ Raise(Error("UnsupportedShape"))
    /\ UNCHANGED << file, data, df, output, stages >>

\* the coercion loop over chapter and verse
Coerce ==
    /\ pc = "flattened"
    /\ LET r == coerce(df) IN
        /\ IF r.ok THEN Done("coerce", "coerced")
           ELSE Raise(Error("TypeError")) /\ UNCHANGED stages
        /\ df' = r.df
    /\ UNCHANGED << file, data, output >>

\* df = df.sort_values([...]).reset_index(drop=True)
Sort ==
    /\ pc = "coerced"
    /\ LET r == sort_values(df) IN
        /\ IF r.ok THEN Done("sort", "sorted")
           ELSE Raise(Error("ValueError")) /\ UNCHANGED stages
        /\ df' = r.df
    /\ UNCHANGED << file, data, output >>

\* df.insert(0, "id", range(len(df)))
AssignIds ==
    /\ pc = "sorted"
    /\ df' = insert_id(df)
    /\ Done("id", "numbered")
    /\ UNCHANGED << file, data, output >>

\* Write running also after a failure (as from a finally block)
WriteEvenAfterError ==
    /\ pc \in {"numbered", "failed"}
    /\ output' = to_csv(df)
    /\ Done("write", "written")
    /\ UNCHANGED << file, data, df >>

\* df.to_csv(OUTPUT_CSV, ...)
Write ==
    /\ pc = "numbered"
    /\ output' = to_csv(df)
    /\ Done("write", "written")
    /\ UNCHANGED << file, data, df >>

Next ==
    \/ CheckInput
    \/ LoadJson
    \/ FlattenList
    \/ FlattenNested
    \/ Unsupported
    \/ Coerce
    \/ Sort
    \/ AssignIds
    \/ Write

Spec == Init /\ [][Next]_vars

(***************************************************************************)
(* Vocabulary of the claims.                                               *)
(***************************************************************************)
\* the recognized spellings of each canonical field name
Spellings ==
    [book |-> {"book", "Book", "book_name", "bookName"},
     chapter |-> {"chapter", "Chapter", "chapterNumber"},
     verse |-> {"verse", "Verse", "verseNumber"},
     text |-> {"text", "Text", "verseText", "content"}]

FieldNames == << "book", "chapter", "verse", "text" >>

ClaimFields == DOMAIN Spellings

\* the spellings of field f that occur as a key of some record
SpellingsUsed(items, f) ==
    {k \in Spellings[f] : \E i \in 1..Len(items) : HasKey(items[i], k)}

\* every field is spelled one way, if at all, across the whole input
OneSpellingPerField(items) ==
    \A f \in ClaimFields : Cardinality(SpellingsUsed(items, f)) <= 1

ListPath == data.kind = "list" /\ Contains(stages, "flatten_from_list")

NestedPath == data.kind = "dict" /\ Contains(stages, "flatten_from_nested")

AfterSort == pc \in {"sorted", "numbered", "written"}

\* the column of df labelled name (the label is unique where this is used)
Col(name) == PositionsOf(df.columns, name, 1)[1]

\* x before y in ascending order of integers, a null after every integer
IntBefore(x, y) == x.t = "int" /\ (y.t = "nan" \/ x.n < y.n)

\* x before y in ascending order of text, a null after every text
TextBefore(x, y) == x.t = "str" /\ (y.t = "nan" \/ StrLess(x.s, y.s))

\* row r strictly precedes row q in (book, chapter, verse) order
KeyBefore(r, q) ==
    \/ TextBefore(r[Col("book")], q[Col("book")])
    \/ /\ r[Col("book")] = q[Col("book")]
       /\ \/ IntBefore(r[Col("chapter")], q[Col("chapter")])
          \/ /\ r[Col("chapter")] = q[Col("chapter")]
             /\ IntBefore(r[Col("verse")], q[Col("verse")])

\* the spec's example [(B,2,1,x), (A,1,5,y), (A,1,1,z)], under canonical names
SortExample ==
    ListRoot(<< Record("B-2-1", Canonical, 1), Record("A-1-5", Canonical, 2),
                Record("A-1-1", Canonical, 3) >>)

\* C1: once the table is sorted, on either path, no row is followed by a row
\* that precedes it in (book as text, chapter as integer, verse as integer)
\* order with nulls last; chapter and verse hold integers or nulls, never
\* text; and the spec's example comes out as (A,1,1), (A,1,5), (B,2,1).
C1_SortedByBookChapterVerse ==
    AfterSort =>
        /\ \A i, j \in 1..Len(df.rows) :
              i < j => ~KeyBefore(df.rows[j], df.rows[i])
        /\ \A i \in 1..Len(df.rows) :
              /\ df.rows[i][Col("chapter")].t \in {"int", "nan"}
              /\ df.rows[i][Col("verse")].t \in {"int", "nan"}
        /\ data = SortExample =>
              [i \in 1..3 |-> SubSeq(df.rows[i], Len(df.rows[i]) - 3,
                                     Len(df.rows[i]))]
                = << << BookA, Num(1), Num(1), RowText(3) >>,
                     << BookA, Num(1), Num(5), RowText(2) >>,
                     << BookB, Num(2), Num(1), RowText(1) >> >>

\* a written table in which chapter 2 (given as "2") comes before chapter 10
\* (given as "10") and a null chapter comes last, though the input had the
\* null first and 10 before 2
C1_Witness ==
    /\ pc = "written"
    /\ ListPath
    /\ Len(df.rows) = 3
    /\ data.items[1] = Record("A-'not-a-number'-1", Canonical, 1)
    /\ [i \in 1..3 |-> df.rows[i][Col("chapter")]] = << Num(2), Num(10), NaN >>

\* C2: once ids are assigned the table has one id column, the first, and the
\* row at position k (counting from 0) has id k, so the ids are 0..N-1 without
\* gap or duplicate, whatever id the input carried; before the sort has
\* finished no column is labelled id; the file written lists the same ids.
C2_IdsFollowSortPosition ==
    /\ pc \in {"numbered", "written"} =>
          /\ df.columns[1] = "id"
          /\ Count(df.columns, "id") = 1
          /\ \A k \in 1..Len(df.rows) : df.rows[k][1] = Num(k - 1)
          /\ {df.rows[k][1].n : k \in 1..Len(df.rows)} = 0..(Len(df.rows) - 1)
    /\ pc \in {"flattened", "coerced", "sorted"} => ~Contains(df.columns, "id")
    /\ output.written =>
          \A k \in 1..Len(output.lines) : output.lines[k][1] = NatDigits(k - 1)

\* a written table of three rows whose first input record carried "id": 7 and
\* was moved to the last position by the sort
C2_Witness ==
    /\ pc = "written"
    /\ ListPath
    /\ Len(df.rows) = 3
    /\ HasKey(data.items[1], "id")
    /\ df.rows[3][Col("text")] = RowText(1)
    /\ df.rows[3][1] = Num(2)

ListStages ==
    << "exists", "parse", "flatten_from_list", "coerce", "sort", "id", "write" >>

NestedStages ==
    << "exists", "parse", "flatten_from_nested", "coerce", "sort", "id", "write" >>

IsPrefix(p, q) == Len(p) <= Len(q) /\ p = SubSeq(q, 1, Len(p))

\* C10: the stages completed are always an initial part of: input exists,
\* parse, one flattener (the list one for a sequence root, the nested one for
\* a mapping root), coerce, sort, id, write; the output file exists only when
\* all of them completed and no error was raised, so no failed run writes it.
C10_StagesInOrderAndNoWriteAfterError ==
    /\ \/ IsPrefix(stages, ListStages) /\ (Len(stages) >= 3 => data.kind = "list")
       \/ IsPrefix(stages, NestedStages) /\ (Len(stages) >= 3 => data.kind = "dict")
    /\ output.written => pc = "written" /\ err = NoError /\ Len(stages) = 7
    /\ err # NoError => pc = "failed" /\ ~output.written
    /\ pc = "failed" => err # NoError /\ ~output.written
    /\ err.kind = "InputNotFound" => ~file.exists /\ stages = << >>
    /\ err.kind = "UnsupportedShape" => data.kind \notin {"list", "dict"}
    /\ err.kind = "EmptyFlattenResult" => data.kind = "dict" /\ Len(stages) = 2
    /\ err.kind \in {"MissingRequiredFields", "CoercionFailure"} =>
          Len(stages) = 2

\* a run that reached the flattener and ended in an error, with no file
C10_Witness ==
    /\ pc = "failed"
    /\ err.kind = "EmptyFlattenResult"
    /\ stages = << "exists", "parse" >>
    /\ data.items # << >>
    /\ ~output.written

\* the input with every recognized spelling replaced by the canonical name
CanonicalSpelling(items) ==
    [i \in 1..Len(items) |->
        [j \in 1..Len(items[i]) |->
            IF \E f \in ClaimFields : items[i][j].k \in Spellings[f]
            THEN Field(CHOOSE f \in ClaimFields : items[i][j].k \in Spellings[f],
                       items[i][j].v)
            ELSE items[i][j]]]

AfterListFlatten ==
    /\ data.kind = "list"
    /\ \/ pc = "flattened"
       \/ pc = "failed" /\ stages = << "exists", "parse" >>

\* no record has the same field under two spellings, so the input has a
\* counterpart under canonical names
HasCanonicalCounterpart(items) ==
    \A i \in 1..Len(items) : \A f \in ClaimFields :
        Cardinality({k \in Spellings[f] : HasKey(items[i], k)}) <= 1

\* the result of flatten_from_list on the input is its result on the input's
\* counterpart under canonical names
SameAsCanonical ==
    LET canon == flatten_from_list(CanonicalSpelling(data.items)) IN
    /\ canon.ok = (pc = "flattened")
    /\ canon.df = df
    /\ canon.err.kind = err.kind
    /\ canon.err.missing = err.missing

\* C3 as claimed: any list-shaped input gives the same result from
\* flatten_from_list as the input that differs from it only in using the
\* canonical name wherever it uses another recognized spelling.
C3_AliasEquivalenceAnySpelling ==
    AfterListFlatten /\ HasCanonicalCounterpart(data.items) => SameAsCanonical

\* C3, amended: a list-shaped input that spells each field one way throughout
\* gives the same result from flatten_from_list (the same table, or the same
\* rejection) as its counterpart under canonical names; so two inputs that
\* differ only in the one spelling each uses for a field give identical
\* tables.
C3_AliasEquivalence ==
    AfterListFlatten /\ OneSpellingPerField(data.items) => SameAsCanonical

\* an input of two records spelled bookName/content, flattened to a table
\* whose rows carry the values found under those aliases
C3_Witness ==
    /\ pc = "flattened"
    /\ data.kind = "list"
    /\ OneSpellingPerField(data.items)
    /\ Len(data.items) = 2
    /\ \A i \in 1..2 : Keys(data.items[i]) = << "bookName", "chapter", "verse", "content" >>
    /\ df.columns = FieldNames
    /\ df.rows[2] = << BookB, Num(2), Num(1), RowText(2) >>

IsDecimalInteger(s) ==
    \/ AllDigits(s)
    \/ s # << >> /\ s[1] = "-" /\ AllDigits(Tail(s))

\* the verse entries under a mapping-valued book and a mapping-valued
\* chapter, as positions <<book, chapter, verse>> in the document
VerseEntries(entries) ==
    {p \in (1..Len(entries)) \X (1..MaxChapters) \X (1..MaxVerses) :
        /\ entries[p[1]].v.isMap
        /\ p[2] <= Len(entries[p[1]].v.entries)
        /\ entries[p[1]].v.entries[p[2]].v.isMap
        /\ p[3] <= Len(entries[p[1]].v.entries[p[2]].v.entries)}

BookAt(entries, p) == entries[p[1]]
ChapterAt(entries, p) == entries[p[1]].v.entries[p[2]]
VerseAt(entries, p) == entries[p[1]].v.entries[p[2]].v.entries[p[3]]

\* the record the claim expects of the verse entry at p
ExpectedRow(entries, p) ==
    << Str(BookAt(entries, p).k),
       Num(DigitsValue(ChapterAt(entries, p).k)),
       Num(DigitsValue(VerseAt(entries, p).k)),
       IF VerseAt(entries, p).v.t = "str" THEN VerseAt(entries, p).v
       ELSE Str(NatDigits(VerseAt(entries, p).v.n)) >>

AfterNestedFlatten ==
    /\ data.kind = "dict"
    /\ \/ pc = "flattened"
       \/ pc = "failed" /\ stages = << "exists", "parse" >>

HasSkippedValue(entries) ==
    \E i \in 1..Len(entries) :
        \/ ~entries[i].v.isMap
        \/ \E j \in 1..Len(entries[i].v.entries) :
              ~entries[i].v.entries[j].v.isMap

\* C4: when flatten_from_nested returns, its table has the four canonical
\* columns and exactly one row (book, int(chapter), int(verse), str(text))
\* for each verse entry under a mapping-valued book and chapter, and no other
\* row; it fails only when a label of such an entry does not parse or when
\* there is no such entry, never because a book or chapter is no mapping;
\* {"A": {"1": {"1": "a", "2": "b"}}} gives (A,1,1,"a") and (A,1,2,"b").
C4_NestedFlattenCompleteness ==
    AfterNestedFlatten =>
        LET E == VerseEntries(data.items) IN
        /\ pc = "flattened" =>
              /\ df.columns = FieldNames
              /\ Len(df.rows) = Cardinality(E)
              /\ \A p \in E :
                    Cardinality({i \in 1..Len(df.rows) :
                                    df.rows[i] = ExpectedRow(data.items, p)}) = 1
        /\ pc = "failed" =>
              \/ E = {} /\ err.kind = "EmptyFlattenResult"
              \/ /\ err.kind = "CoercionFailure"
                 /\ \E p \in E :
                       \/ ~IsDecimalInteger(ChapterAt(data.items, p).k)
                       \/ ~IsDecimalInteger(VerseAt(data.items, p).k)
        /\ data = DictRoot(<< Field(<< "A" >>,
                     Map(<< Field(<< "1" >>,
                         Map(<< Field(<< "1" >>, Str(<< "a" >>)),
                                Field(<< "2" >>, Str(<< "b" >>)) >>)) >>)) >>) =>
              df.rows = << << BookA, Num(1), Num(1), Str(<< "a" >>) >>,
                           << BookA, Num(1), Num(2), Str(<< "b" >>) >> >>

\* a nested input with a value that is no mapping and a chapter of two
\* verses, flattened to one row per verse
C4_Witness ==
    /\ pc = "flattened"
    /\ data.kind = "dict"
    /\ HasSkippedValue(data.items)
    /\ \E i \in 1..Len(data.items) :
          /\ ~data.items[i].v.isMap
          /\ i < Len(data.items)
    /\ Len(df.rows) = 2
    /\ df.rows[1] = << BookA, Num(1), Num(2), Str(<< "b" >>) >>
    /\ df.rows[2] = << BookA, Num(1), Num(1), Str(<< "a" >>) >>

\* the canonical fields for which no record has a key in any spelling
FieldsOfNoRecord(items) == {f \in ClaimFields : SpellingsUsed(items, f) = {}}

\* the field names of the input, each recognized spelling read as its
\* canonical name
NamesObserved(items) ==
    {IF \E f \in ClaimFields : k \in Spellings[f]
     THEN CHOOSE f \in ClaimFields : k \in Spellings[f] ELSE k :
        k \in UNION {Range(Keys(items[i])) : i \in 1..Len(items)}}

\* C5: flatten_from_list fails with MissingRequiredFields exactly when some
\* field of {book, chapter, verse, text} is, in every spelling, a key of no
\* record; the error names exactly those fields and the field names seen;
\* and a run that ended so has written no output file.
C5_MissingFieldRejection ==
    /\ AfterListFlatten =>
          /\ (err.kind = "MissingRequiredFields")
                <=> (FieldsOfNoRecord(data.items) # {})
          /\ (pc = "failed") <=> (FieldsOfNoRecord(data.items) # {})
          /\ pc = "failed" =>
                /\ err.missing = FieldsOfNoRecord(data.items)
                /\ Range(err.seen) = NamesObserved(data.items)
    /\ err.kind = "MissingRequiredFields" =>
          pc = "failed" /\ ~output.written /\ df = EmptyFrame

\* two records under aliases, neither with a verse field in any spelling:
\* rejected, verse reported missing, nothing written
C5_Witness ==
    /\ pc = "failed"
    /\ err.kind = "MissingRequiredFields"
    /\ err.missing = {"verse"}
    /\ err.seen = << "book", "chapter", "text" >>
    /\ Len(data.items) = 2
    /\ HasKey(data.items[1], "book_name")
    /\ ~output.written

\* C6 as claimed, on the inputs that spell each field one way: once
\* flatten_from_list has returned a table the run does not fail, every record
\* is kept, and a chapter that is no integer is a null placed after the
\* integer chapters of its book.
C6_LenientCoercionNeverRaises ==
    ListPath /\ OneSpellingPerField(data.items) =>
        /\ pc # "failed"
        /\ Len(df.rows) = Len(data.items)
        /\ AfterSort =>
              \A i, j \in 1..Len(df.rows) :
                 /\ df.rows[i][Col("book")] = df.rows[j][Col("book")]
                 /\ df.rows[i][Col("chapter")].t = "nan"
                 /\ df.rows[j][Col("chapter")].t = "int"
                 => j < i

\* a chapter or verse label that is no decimal integer, on a verse entry
\* under a mapping-valued book and chapter
BadLabelReached(entries) ==
    \E p \in VerseEntries(entries) :
        \/ ~IsDecimalInteger(ChapterAt(entries, p).k)
        \/ ~IsDecimalInteger(VerseAt(entries, p).k)

\* a chapter or verse label that is no decimal integer, under a
\* mapping-valued book and a mapping-valued chapter, with or without verses
\* in that chapter
BadLabelPresent(entries) ==
    \/ BadLabelReached(entries)
    \/ \E i \in 1..Len(entries) :
          /\ entries[i].v.isMap
          /\ \E j \in 1..Len(entries[i].v.entries) :
                /\ entries[i].v.entries[j].v.isMap
                /\ ~IsDecimalInteger(entries[i].v.entries[j].k)

\* C7 as claimed: a nested input with any unparsable chapter or verse label
\* under a mapping-valued book and chapter never gets a table from
\* flatten_from_nested.
C7_AnyBadLabelFails ==
    data.kind = "dict" /\ BadLabelPresent(data.items) => pc # "flattened"

\* C7, amended: if a verse entry under a mapping-valued book and chapter has
\* a chapter or verse label that is no base-10 integer, flatten_from_nested
\* fails with CoercionFailure and returns no table (a chapter with such a
\* label and no verse in it is never coerced and fails nothing); and every
\* row of the nested path has an integer chapter and verse, never a null, at
\* every later stage.
C7_StrictCoercionOnNestedPath ==
    /\ AfterNestedFlatten /\ BadLabelReached(data.items) =>
          /\ pc = "failed"
          /\ err.kind = "CoercionFailure"
          /\ df = EmptyFrame
          /\ ~output.written
    /\ NestedPath =>
          /\ pc # "failed"
          /\ \A i \in 1..Len(df.rows) :
                /\ df.rows[i][Col("chapter")].t = "int"
                /\ df.rows[i][Col("verse")].t = "int"
          /\ ~BadLabelReached(data.items)

\* a nested input with a good verse entry followed by one whose label is
\* "x": the run fails though a record had already been reached
C7_Witness ==
    /\ pc = "failed"
    /\ err.kind = "CoercionFailure"
    /\ data.kind = "dict"
    /\ \E p \in VerseEntries(data.items) :
          /\ p[3] = 2
          /\ VerseAt(data.items, p).k = << "x" >>
          /\ IsDecimalInteger(ChapterAt(data.items, p).k)
    /\ ~output.written

\* C8 as claimed: every table flatten_from_list returns has exactly the
\* columns book, chapter, verse, text, once each, in that order.
C8_AlwaysFourColumns ==
    data.kind = "list" /\ pc = "flattened" => df.columns = FieldNames

\* name repeated n times
RECURSIVE Repeat(_, _)
Repeat(name, n) == IF n = 0 THEN << >> ELSE << name >> \o Repeat(name, n - 1)

\* C8, amended: the table flatten_from_list returns has only columns
\* labelled book, chapter, verse, text, grouped in that order, one column
\* for each spelling of the field that occurs in the input; so it has exactly
\* the four columns, once each, when every field is spelled one way
\* throughout (extra fields are dropped), and a repeated label otherwise;
\* every row is as wide as the header.
C8_CanonicalColumnsPerSpelling ==
    data.kind = "list" /\ pc = "flattened" =>
        /\ df.columns =
              Flatten([k \in 1..4 |->
                  Repeat(FieldNames[k],
                         Cardinality(SpellingsUsed(data.items, FieldNames[k])))])
        /\ OneSpellingPerField(data.items) => df.columns = FieldNames
        /\ \A i \in 1..Len(df.rows) : Len(df.rows[i]) = Len(df.columns)

\* a table of four columns from an input whose records spell each field one
\* way and carry the extra fields id and note
C8_Witness ==
    /\ pc = "flattened"
    /\ data.kind = "list"
    /\ OneSpellingPerField(data.items)
    /\ Len(data.items) = 2
    /\ HasKey(data.items[1], "note")
    /\ HasKey(data.items[2], "Book")
    /\ df.columns = FieldNames

\* C9 as claimed: a list-shaped run that wrote its output had, in every
\* input record, each of the four fields under some recognized spelling, and
\* wrote one line per record.
C9_EveryRecordHasAllFields ==
    pc = "written" /\ data.kind = "list" =>
        /\ Len(output.lines) = Len(data.items)
        /\ \A i \in 1..Len(data.items) : \A f \in ClaimFields :
              \E k \in Spellings[f] : HasKey(data.items[i], k)

====
